---- MODULE Spec2Model ----
(***************************************************************************)
(* A model of pycof.data.read (src/pycof/data.py): the object-store branch *)
(* with its on-disk cache (Spec) and the local dispatch by extension with  *)
(* the line cleaners and the parquet engines (SpecLocal).                  *)
(*                                                                         *)
(* Python strings are sequences of one-character strings, so that split,   *)
(* strip, replace, `in` and float() are computed, character by character.  *)
(***************************************************************************)
EXTENDS Integers, Sequences, FiniteSets, TLC

VARIABLES
    pc,          \* where the running read() call stands: idle, resolve, download, dispatch, done, raised
    args,        \* the arguments of the running call, with the content of the file of its path
    ext,         \* the local variable ext
    err,         \* the exception the call ended with ("" when none)
    ret,         \* the value the call returned
    net,         \* the object-store operations the running call has issued
    auth,        \* the credential sources the running call has tried and what each gave, in order
    branch,      \* the branch of lines 102-161 the running call took
    pending,     \* the keys the running download loop has still to visit
    written,     \* the file names the running download loop has written
    dirExists,   \* whether the cache subdirectory of the key exists
    files,       \* the file names in the cache subdirectory
    mtime,       \* the modification time of the cache subdirectory, in seconds
    popComplete, \* whether the last population of the subdirectory ran its loop to the end
    now,         \* the clock, in seconds
    store        \* the keys of the bucket under the prefix

vars == <<pc, args, ext, err, ret, net, auth, branch, pending, written,
          dirExists, files, mtime, popComplete, now, store>>

(***************************************************************************)
(* Bounds.                                                                 *)
(***************************************************************************)
\* the clock advances by TickSecs seconds at a time, MaxTicks times at most
TickSecs == 30
MaxTicks == 3
\* a script file is made of at most MaxPieces pieces, a jsonc file of at most MaxJsoncPieces
MaxPieces == 4
MaxJsoncPieces == 5

(***************************************************************************)
(* Strings.                                                                *)
(***************************************************************************)
Letters == {"a","b","c","d","e","f","g","h","i","j","k","l","m",
            "n","o","p","q","r","s","t","u","v","w","x","y","z"}
Digits == {"0","1","2","3","4","5","6","7","8","9"}
Whitespace == {" ", "\n", "\t", "\r"}

\* s[i..j], "" when i > j
Slice(s, i, j) == IF i > j THEN <<>> ELSE SubSeq(s, i, j)

\* s.startswith(p, i - 1)
StartsAt(s, p, i) == /\ i + Len(p) - 1 <= Len(s)
                     /\ \A k \in 1..Len(p) : s[i + k - 1] = p[k]

\* p in s
Contains(s, p) == \E i \in 1..(Len(s) + 1) : StartsAt(s, p, i)

\* s.find(p, i - 1) + 1, 0 when p is not found
Find(s, p, i) == LET hits == {k \in i..(Len(s) + 1) : StartsAt(s, p, k)}
                 IN  IF hits = {} THEN 0 ELSE CHOOSE k \in hits : \A h \in hits : k <= h

\* s.split(p)[0]
SplitFirst(s, p) == LET k == Find(s, p, 1)
                    IN  IF k = 0 THEN s ELSE Slice(s, 1, k - 1)

\* s.split(p)[-1]
SplitLast(s, p) ==
    LET hits == {k \in 1..(Len(s) + 1) : StartsAt(s, p, k)}
    IN  IF hits = {} THEN s
        ELSE LET k == CHOOSE h \in hits : \A g \in hits : g <= h
             IN  Slice(s, k + Len(p), Len(s))

\* s.split(p), p not empty
RECURSIVE Split(_, _)
Split(s, p) == LET k == Find(s, p, 1)
               IN  IF k = 0 THEN <<s>>
                   ELSE <<Slice(s, 1, k - 1)>> \o Split(Slice(s, k + Len(p), Len(s)), p)

\* s.strip()
Strip(s) ==
    LET keep == {i \in 1..Len(s) : s[i] \notin Whitespace}
    IN  IF keep = {} THEN <<>>
        ELSE Slice(s, CHOOSE i \in keep : \A k \in keep : i <= k,
                      CHOOSE i \in keep : \A k \in keep : k <= i)

\* sep.join(parts)
RECURSIVE Join(_, _)
Join(parts, sep) == IF parts = <<>> THEN <<>>
                    ELSE IF Len(parts) = 1 THEN parts[1]
                    ELSE parts[1] \o sep \o Join(Tail(parts), sep)

\* s.replace(old, new), old not empty
RECURSIVE Replace(_, _, _)
Replace(s, old, new) ==
    LET k == Find(s, old, 1)
    IN  IF k = 0 THEN s
        ELSE Slice(s, 1, k - 1) \o new \o Replace(Slice(s, k + Len(old), Len(s)), old, new)

\* c.lower(), on the upper-case letters the inputs use
LowerChar(c) == CASE c = "M" -> "m"
                  [] c = "S" -> "s"
                  [] c = "T" -> "t"
                  [] c = "F" -> "f"
                  [] OTHER   -> c

\* s.lower()
Lower(s) == [i \in 1..Len(s) |-> LowerChar(s[i])]

\* the concatenation of the pieces of a file
RECURSIVE Flatten(_)
Flatten(ps) == IF ps = <<>> THEN <<>> ELSE ps[1] \o Flatten(Tail(ps))

\* all sequences over S of length at most n
SeqsUpTo(S, n) == UNION {[1..k -> S] : k \in 0..n}

(***************************************************************************)
(* String constants of the source.                                         *)
(***************************************************************************)
Csv      == <<"c","s","v">>
Txt      == <<"t","x","t">>
Parq     == <<"p","a","r","q">>
Parquet  == <<"p","a","r","q","u","e","t">>
Fea      == <<"f","e","a">>
Feather  == <<"f","e","a","t","h","e","r">>
Html     == <<"h","t","m","l">>
Json     == <<"j","s","o","n">>
Js       == <<"j","s">>
Py       == <<"p","y">>
Sh       == <<"s","h">>
Xls      == <<"x","l","s">>
Xlsx     == <<"x","l","s","x">>
Sql      == <<"s","q","l">>
Jsonc    == <<"j","s","o","n","c">>
ReadOnlyExts == {<<"r","e","a","d","o","n","l","y">>,
                 <<"r","e","a","d","-","o","n","l","y">>, <<"r","o">>}
Auto     == <<"a","u","t","o">>
Pa       == <<"p","a">>
Pyarrow  == <<"p","y","a","r","r","o","w">>
Fp       == <<"f","p">>
Fastparquet == <<"f","a","s","t","p","a","r","q","u","e","t">>
Dot      == <<".">>

\* line 102: the extensions loaded from the object store without a download
StreamableExts == {Csv, Txt, Parq, Parquet, Fea, Feather, Html, Json, Js, Py, Sh, Xls, Xlsx}

\* line 147: the markers of a data file
DataMarkers == {Dot \o Parquet, Dot \o Parq, Dot \o Feather, Dot \o Fea,
                Dot \o Csv, Dot \o Json, Dot \o Txt}

(***************************************************************************)
(* The line cleaners of lines 170-266.                                     *)
(***************************************************************************)
\* l.format(**kwargs) with no keyword given: "{{" and "}}" are escapes, any
\* other brace raises (a field no argument fills, or a single brace)
RECURSIVE Format(_)
Format(l) ==
    IF l = <<>> THEN [ok |-> TRUE, s |-> <<>>]
    ELSE IF l[1] \in {"{", "}"}
         THEN IF Len(l) >= 2 /\ l[2] = l[1]
              THEN LET r == Format(Slice(l, 3, Len(l)))
                   IN  [ok |-> r.ok, s |-> <<l[1]>> \o r.s]
              ELSE [ok |-> FALSE, s |-> <<>>]
         ELSE LET r == Format(Tail(l))
              IN  [ok |-> r.ok, s |-> <<l[1]>> \o r.s]

\* re.sub(open(.|\s|\n)*?close, "", l): the leftmost, shortest spans are removed
RECURSIVE RemoveSpans(_, _, _)
RemoveSpans(l, open, close) ==
    LET k == Find(l, open, 1)
        j == IF k = 0 THEN 0 ELSE Find(l, close, k + Len(open))
    IN  IF j = 0 THEN l
        ELSE Slice(l, 1, k - 1) \o RemoveSpans(Slice(l, j + Len(close), Len(l)), open, close)

\* the comment rule of each text branch (lines 182, 204, 221, 237, 258-260); the
\* re.sub of lines 183 and 238 is computed and dropped, so it changes nothing
RemoveComments(kind, l) ==
    CASE kind = "sql"   -> SplitFirst(l, <<"-","-">>)
      [] kind = "html"  -> RemoveSpans(l, <<"<","!","-","-">>, <<"-","-",">">>)
      [] kind = "py"    -> SplitFirst(l, <<"#">>)
      [] kind = "js"    -> SplitFirst(l, <<"/","/">>)
      [] kind = "jsonc" -> SplitFirst(SplitFirst(RemoveSpans(l, <<"/","*">>, <<"*","/">>),
                                                 <<"/","/">>), <<"#">>)

\* the body of the loop over the lines: strip, format, remove the comments
CleanLine(kind, line, parse, remove_comments) ==
    LET l1 == Strip(line)
        f  == IF parse /\ kind # "jsonc" THEN Format(l1) ELSE [ok |-> TRUE, s |-> l1]
        l3 == IF remove_comments THEN RemoveComments(kind, f.s) ELSE f.s
    IN  [ok |-> f.ok, s |-> l3]

\* the loop over file.split('\n') and the ' '.join(data) that follows it
CleanText(kind, file, parse, remove_comments) ==
    LET ls == Split(file, <<"\n">>)
        cl == [i \in 1..Len(ls) |-> CleanLine(kind, ls[i], parse, remove_comments)]
        data == SelectSeq([i \in 1..Len(ls) |-> cl[i].s], LAMBDA l : l # <<>>)
    IN  [ok |-> \A i \in 1..Len(ls) : cl[i].ok, s |-> Join(data, <<" ">>)]

(***************************************************************************)
(* json.loads, on the documents the inputs can form: objects of string     *)
(* keys and integer values, with white space between the tokens.           *)
(***************************************************************************)
RECURSIVE JsonTokens(_)
JsonTokens(s) ==
    IF s = <<>> THEN <<>>
    ELSE IF s[1] \in Whitespace THEN JsonTokens(Tail(s))
    ELSE IF s[1] \in {"{", "}", ",", ":"}
         THEN <<[t |-> s[1], v |-> <<>>]>> \o JsonTokens(Tail(s))
    ELSE IF s[1] = "\""
         THEN LET j == Find(s, <<"\"">>, 2)
              IN  IF j = 0 THEN <<[t |-> "bad", v |-> <<>>]>>
                  ELSE <<[t |-> "str", v |-> Slice(s, 2, j - 1)]>>
                       \o JsonTokens(Slice(s, j + 1, Len(s)))
    ELSE IF s[1] \in Digits
         THEN LET stops == {i \in 1..Len(s) : s[i] \notin Digits}
                  e == IF stops = {} THEN Len(s) + 1
                       ELSE CHOOSE i \in stops : \A k \in stops : i <= k
              IN  <<[t |-> "num", v |-> Slice(s, 1, e - 1)]>>
                  \o JsonTokens(Slice(s, e, Len(s)))
    ELSE <<[t |-> "bad", v |-> <<>>]>>

\* the members after a "{" or a ",": key : value, then "," or the closing "}"
RECURSIVE JsonMembers(_)
JsonMembers(ts) ==
    IF Len(ts) >= 4 /\ ts[1].t = "str" /\ ts[2].t = ":" /\ ts[3].t = "num"
    THEN IF ts[4].t = "}"
         THEN [ok |-> Len(ts) = 4, v |-> <<<<ts[1].v, ts[3].v>>>>]
         ELSE IF ts[4].t = ","
              THEN LET r == JsonMembers(Slice(ts, 5, Len(ts)))
                   IN  [ok |-> r.ok, v |-> <<<<ts[1].v, ts[3].v>>>> \o r.v]
              ELSE [ok |-> FALSE, v |-> <<>>]
    ELSE [ok |-> FALSE, v |-> <<>>]

\* a dict keeps the last value given to a key
DictOf(members) ==
    {members[i] : i \in {k \in 1..Len(members) :
                          \A h \in (k + 1)..Len(members) : members[h][1] # members[k][1]}}

JsonLoads(s) ==
    LET ts == JsonTokens(s)
    IN  IF Len(ts) = 2 /\ ts[1].t = "{" /\ ts[2].t = "}" THEN [ok |-> TRUE, v |-> {}]
        ELSE IF Len(ts) >= 1 /\ ts[1].t = "{"
             THEN LET r == JsonMembers(Tail(ts))
                  IN  [ok |-> r.ok, v |-> IF r.ok THEN DictOf(r.v) ELSE {}]
             ELSE [ok |-> FALSE, v |-> {}]

(***************************************************************************)
(* Lines 163-305: the dispatch by extension.  A value of the program is a  *)
(* record: kind "list" is a list (s its items), "str" a string (s), "dict" *)
(* a parsed document (v), "table" the table of a backend (by).             *)
(***************************************************************************)
EmptyList == [kind |-> "list", by |-> "", s |-> <<>>, v |-> {}]
StrValue(s) == [kind |-> "str", by |-> "", s |-> s, v |-> {}]
DictValue(v) == [kind |-> "dict", by |-> "", s |-> <<>>, v |-> v]
Table(by) == [kind |-> "table", by |-> by, s |-> <<>>, v |-> {}]
Returns(data) == [ok |-> TRUE, err |-> "", data |-> data]
Raises(e) == [ok |-> FALSE, err |-> e, data |-> EmptyList]

\* file = path.read().decode() of a buffer, or open(path).read(): a directory cannot be opened
ReadFile(a) == IF a.pathKind = "dir" THEN [ok |-> FALSE, s |-> <<>>]
               ELSE [ok |-> TRUE, s |-> a.file]

\* a table decoder of pandas or pyarrow reading path
Decode(a, by) == IF a.pathKind = "dir" /\ by # "pandas.read_parquet"
                 THEN Raises("IsADirectoryError")
                 ELSE Returns(Table(by))

\* lines 170-241: the sql, html, py/sh and js branches
TextBranch(a, kind) ==
    LET f == ReadFile(a)
        c == CleanText(kind, f.s, a.parse, a.remove_comments)
    IN  IF ~f.ok THEN Raises("IsADirectoryError")
        ELSE IF ~c.ok THEN Raises("FormatError")
        ELSE Returns(StrValue(c.s))

\* lines 249-266: the jsonc branch
JsoncBranch(a) ==
    LET f == ReadFile(a)
        c == CleanText("jsonc", f.s, FALSE, a.remove_comments)
        str_content == Replace(c.s, <<",", " ", "}">>, <<"}">>)
        j == JsonLoads(str_content)
    IN  IF ~f.ok THEN Raises("IsADirectoryError")
        ELSE IF ~j.ok THEN Raises("JSONDecodeError")
        ELSE Returns(DictValue(j.v))

\* lines 279-282: the table is assigned to `table`; data is still the list of line 82
FastparquetBranch(a) == Returns(EmptyList)

\* lines 268-286: the parquet branch
ParquetBranch(a) ==
    LET _engine == IF ~a.engine.callable /\ a.engine.name = Auto
                   THEN [callable |-> FALSE, name |-> Pyarrow] ELSE a.engine
    IN  IF a.orgn = "S3" THEN Decode(a, "pandas.read_parquet")
        ELSE IF ~_engine.callable
             THEN IF Lower(_engine.name) \in {Py, Pa, Pyarrow} THEN Decode(a, "pyarrow")
                  ELSE IF Lower(_engine.name) \in {Fp, Fastparquet} THEN FastparquetBranch(a)
                  ELSE Raises("ValueError")
             ELSE Returns(Table("callable"))

\* lines 243-248: the json branch
JsonBranch(a) ==
    IF a.engine.callable THEN Raises("AttributeError")
    ELSE IF Lower(a.engine.name) \in {Json}
         THEN LET f == ReadFile(a)
                  j == JsonLoads(f.s)
              IN  IF ~f.ok \/ a.pathKind = "buffer" THEN Raises("OpenError")
                  ELSE IF ~j.ok THEN Raises("JSONDecodeError")
                  ELSE Returns(DictValue(j.v))
         ELSE Decode(a, "pandas.read_json")

\* lines 293-303: read-only prints and returns the list of line 82; any other
\* extension returns the content of the file
Dispatch(a) ==
    LET e == Lower(a.ext)
    IN  CASE e \in {Csv, Txt}      -> Decode(a, "pandas.read_csv")
          [] e \in {Xls, Xlsx}     -> Decode(a, "pandas.read_excel")
          [] e \in {Sql}           -> TextBranch(a, "sql")
          [] e \in {Html}          -> TextBranch(a, "html")
          [] e \in {Py, Sh}        -> TextBranch(a, "py")
          [] e \in {Js}            -> TextBranch(a, "js")
          [] e \in {Json}          -> JsonBranch(a)
          [] e \in {Jsonc}         -> JsoncBranch(a)
          [] e \in {Parq, Parquet} -> ParquetBranch(a)
          [] e \in {Fea, Feather}  -> Decode(a, "pyarrow.feather")
          [] e \in ReadOnlyExts    -> IF a.pathKind = "dir" THEN Raises("IsADirectoryError")
                                      ELSE Returns(EmptyList)
          [] OTHER                 -> IF a.pathKind # "file" THEN Raises("OpenError")
                                      ELSE Returns(StrValue(a.file))

(***************************************************************************)
(* Lines 112-119 and 134: the cache freshness.                             *)
(***************************************************************************)
\* a cache argument: the boolean b, or the string s
BoolArg(b) == [isBool |-> TRUE, b |-> b, s |-> <<>>]
StrArg(s) == [isBool |-> FALSE, b |-> FALSE, s |-> s]

\* line 112 and the str() of line 115: False becomes 0., which prints as "0.0"
StrOfCacheTime(cache) ==
    IF cache.isBool
    THEN IF cache.b THEN <<"T","r","u","e">> ELSE <<"0",".","0">>
    ELSE cache.s

\* line 115
StrCTime(cache) == SelectSeq(Lower(StrOfCacheTime(cache)), LAMBDA c : c # " ")

DigitValue(c) == CASE c = "0" -> 0 [] c = "1" -> 1 [] c = "2" -> 2 [] c = "3" -> 3
                   [] c = "4" -> 4 [] c = "5" -> 5 [] c = "6" -> 6 [] c = "7" -> 7
                   [] c = "8" -> 8 [] c = "9" -> 9

RECURSIVE DigitsValue(_)
DigitsValue(ds) == IF ds = <<>> THEN 0
                   ELSE 10 * DigitsValue(Slice(ds, 1, Len(ds) - 1)) + DigitValue(ds[Len(ds)])

RECURSIVE Pow10(_)
Pow10(n) == IF n = 0 THEN 1 ELSE 10 * Pow10(n - 1)

\* float(t) of a string of digits and points: the number num / den, or ValueError
\* when t has no digit, two points or another character
ParseFloat(t) ==
    LET points == {i \in 1..Len(t) : t[i] = "."}
        digits == SelectSeq(t, LAMBDA c : c \in Digits)
        frac   == IF points = {} THEN 0 ELSE Len(t) - (CHOOSE i \in points : TRUE)
    IN  IF /\ \A i \in 1..Len(t) : t[i] \in Digits \cup {"."}
           /\ Cardinality(points) <= 1
           /\ digits # <<>>
        THEN [ok |-> TRUE, num |-> DigitsValue(digits), den |-> Pow10(frac)]
        ELSE [ok |-> FALSE, num |-> 0, den |-> 1]

\* line 117: c_time
CTime(cache) == ParseFloat(SelectSeq(StrCTime(cache), LAMBDA c : c \notin Letters))

\* line 119: age_fmt
AgeFmt(cache) == SelectSeq(StrCTime(cache), LAMBDA c : c \in Letters)

\* the units file_age knows, with their length in seconds
UnitSeconds(unit) ==
    CASE unit \in {<<"s","e","c">>, <<"s","e","c","s">>, <<"s","e","c","o","n","d","s">>} -> 1
      [] unit \in {<<"m","i","n">>, <<"m","i","n","s">>, <<"m","i","n","u","t","e","s">>} -> 60
      [] unit \in {<<"h","o","u","r">>, <<"h","o","u","r","s">>} -> 3600
      [] unit \in {<<"d","a","y">>, <<"d","a","y","s">>} -> 86400
      [] OTHER -> 0

\* file_age(path, format=unit): the age secs / per of the subdirectory, in the unit;
\* a unit that is not known is an error
FileAge(unit, modified, clock) ==
    [ok |-> UnitSeconds(unit) # 0, secs |-> clock - modified, per |-> UnitSeconds(unit)]

\* line 134: file_age(path, format=age_fmt) < c_time, for an age and a c_time that exist
IsFresh(age, c_time) == age.secs * c_time.den < c_time.num * age.per

(***************************************************************************)
(* The object store and the call's path.                                   *)
(***************************************************************************)
S3Path == <<"s","3",":","/","/","b","/","d","/">>
S3Scheme == <<"s","3",":","/","/">>

\* the keys a bucket may hold, in the order a listing gives them
AllKeys == << <<"d","/">>,
              <<"d","/","a",".","p","a","r","q">>,
              <<"d","/","c",".","c","s","v",".","b","a","k">>,
              <<"d","/","r",".","m","d">> >>
KeySet == {AllKeys[i] : i \in 1..Len(AllKeys)}

\* the text of an object, in pieces, for the branches that read one
ObjectBody == << <<"x">>, <<"\n">> >>

\* line 73
InitialExt(path, extension) == IF extension.none THEN SplitLast(path, Dot) ELSE extension.s
NoExtension == [none |-> TRUE, s |-> <<>>]
Extension(s) == [none |-> FALSE, s |-> s]

\* lines 75-80
Orgn(path) == IF StartsAt(path, S3Scheme, 1) THEN "S3"
              ELSE IF StartsAt(path, <<"h","t","t","p">>, 1) THEN "http"
              ELSE "other"

\* line 100
FolderPath(path) == Join(Tail(Split(Replace(path, S3Scheme, <<>>), <<"/">>)), <<"/">>)

\* s3bucket.objects.filter(Prefix=prefix), read to its end
Listing(keys, prefix) == SelectSeq(AllKeys, LAMBDA k : k \in keys /\ StartsAt(k, prefix, 1))

\* line 147: the keys the refresh loop passes over
SkipOnRefresh(key, folder_path) ==
    \/ key = folder_path
    \/ ~ \E e \in DataMarkers : Contains(key, e)

\* line 158: the keys the first download passes over
SkipOnFirst(key, folder_path) == key = folder_path

\* lines 84-97: the session of the profile, then the credentials of _get_config.  An
\* exception raised in the handler of ProfileNotFound is not caught by the
\* except clause that follows it in the same try statement
SessionSetup(session, config) ==
    CASE session = "ok" -> [ok |-> TRUE, err |-> "", auth |-> << <<"profile", session>> >>]
      [] session = "ProfileNotFound" ->
            [ok |-> config = "ok", err |-> IF config = "ok" THEN "" ELSE config,
             auth |-> << <<"profile", session>>, <<"credentials", config>> >>]
      [] session = "FileNotFoundError" ->
            [ok |-> FALSE, err |-> "ConnectionError", auth |-> << <<"profile", session>> >>]

(***************************************************************************)
(* read() on an object-store path, step by step.                           *)
(***************************************************************************)
AutoEngine == [callable |-> FALSE, name |-> Auto]

Arguments(path, extension, cache, file, parse, remove_comments, engine) ==
    [path |-> path, extension |-> extension, cache |-> cache, file |-> file,
     parse |-> parse, remove_comments |-> remove_comments, engine |-> engine]

NoArgs == Arguments(<<>>, NoExtension, BoolArg(FALSE), <<>>, TRUE, TRUE, AutoEngine)

\* the cache arguments of the calls; '30mins' is the default of line 30
CacheArgs == { BoolArg(FALSE),
               StrArg(<<"0">>),
               StrArg(<<"0","m","i","n","s">>),
               StrArg(<<"1","m","i","n","s">>),
               StrArg(<<"4","5"," ","S","e","c","s">>),
               StrArg(<<"3","0","m","i","n","s">>),
               StrArg(<<"m","i","n","s">>),
               StrArg(<<"1","f","o","o">>) }

\* the extension arguments of the calls
ExtensionArgs == {NoExtension, Extension(Csv)}

Raise(e) == /\ pc' = "raised"
            /\ err' = e

\* the state of the call after a listing: the loop runs, or has nothing to run over
StartLoop(listing) ==
    /\ pending' = listing
    /\ pc' = IF listing = <<>> THEN "dispatch" ELSE "download"
    /\ popComplete' = (listing = <<>>)

\* lines 73-97: the call starts, classifies its path and sets up its session
Call ==
    /\ pc = "idle"
    /\ \E cache \in CacheArgs, extension \in ExtensionArgs,
          session \in {"ok", "ProfileNotFound", "FileNotFoundError"},
          config \in {"ok", "FileNotFoundError"} :
          LET r == SessionSetup(session, config)
          IN  /\ Orgn(S3Path) = "S3"
              /\ args' = Arguments(S3Path, extension, cache, ObjectBody, TRUE, TRUE, AutoEngine)
              /\ ext' = InitialExt(S3Path, extension)
              /\ auth' = r.auth
              /\ pc' = IF r.ok THEN "resolve" ELSE "raised"
              /\ err' = r.err
    /\ net' = {}
    /\ branch' = "none"
    /\ written' = {}
    /\ ret' = EmptyList
    /\ UNCHANGED <<pending, dirExists, files, mtime, popComplete, now, store>>

\* lines 102-106: the object is read into a buffer
Stream ==
    /\ pc = "resolve"
    /\ Lower(ext) \in StreamableExts
    /\ net' = net \cup {"get_object"}
    /\ branch' = "stream"
    /\ \/ pc' = "dispatch" /\ err' = err
       \/ Raise("ClientError")
    /\ UNCHANGED <<args, ext, ret, auth, pending, written, dirExists, files, mtime,
                   popComplete, now, store>>

\* lines 112-119 and 134: the freshness cannot be read
BadFreshness ==
    /\ pc = "resolve"
    /\ Lower(ext) \notin StreamableExts
    /\ \/ ~CTime(args.cache).ok
       \/ CTime(args.cache).ok /\ dirExists /\ ~FileAge(AgeFmt(args.cache), mtime, now).ok
    /\ Raise("ValueError")
    /\ UNCHANGED <<args, ext, ret, net, auth, branch, pending, written, dirExists, files,
                   mtime, popComplete, now, store>>

\* the hit branch without its else: the listing of line 146 runs after the hit
CacheHitThenLists ==
    /\ pc = "resolve"
    /\ Lower(ext) \notin StreamableExts
    /\ CTime(args.cache).ok
    /\ dirExists
    /\ FileAge(AgeFmt(args.cache), mtime, now).ok
    /\ IsFresh(FileAge(AgeFmt(args.cache), mtime, now), CTime(args.cache))
    /\ branch' = "hit"
    /\ net' = net \cup {"list_objects"}
    /\ \/ /\ files = {}
          /\ Raise("IndexError")
          /\ ext' = ext
       \/ \E f \in files :
             /\ ext' = SplitLast(f, Dot)
             /\ pc' = "dispatch"
             /\ err' = err
    /\ UNCHANGED <<args, ret, auth, pending, written, dirExists, files, mtime,
                   popComplete, now, store>>

\* lines 132-137: the subdirectory is there and recent: ext is that of a file of it
CacheHit ==
    /\ pc = "resolve"
    /\ Lower(ext) \notin StreamableExts
    /\ CTime(args.cache).ok
    /\ dirExists
    /\ FileAge(AgeFmt(args.cache), mtime, now).ok
    /\ IsFresh(FileAge(AgeFmt(args.cache), mtime, now), CTime(args.cache))
    /\ branch' = "hit"
    /\ \/ /\ files = {}
          /\ Raise("IndexError")
          /\ ext' = ext
       \/ \E f \in files :
             /\ ext' = SplitLast(f, Dot)
             /\ pc' = "dispatch"
             /\ err' = err
    /\ UNCHANGED <<args, ret, net, auth, pending, written, dirExists, files, mtime,
                   popComplete, now, store>>

\* lines 138-146: the subdirectory is there and old: its files are removed, the
\* objects under the prefix are listed
CacheRefresh ==
    /\ pc = "resolve"
    /\ Lower(ext) \notin StreamableExts
    /\ CTime(args.cache).ok
    /\ dirExists
    /\ FileAge(AgeFmt(args.cache), mtime, now).ok
    /\ ~IsFresh(FileAge(AgeFmt(args.cache), mtime, now), CTime(args.cache))
    /\ branch' = "refresh"
    /\ files' = {}
    /\ mtime' = IF files = {} THEN mtime ELSE now
    /\ net' = net \cup {"list_objects"}
    /\ \/ StartLoop(Listing(store, FolderPath(args.path))) /\ err' = err
       \/ Raise("ClientError") /\ pending' = <<>> /\ popComplete' = FALSE
    /\ UNCHANGED <<args, ext, ret, auth, written, dirExists, now, store>>

\* lines 152-157: there is no subdirectory: it is made, the objects are listed
CacheFirst ==
    /\ pc = "resolve"
    /\ Lower(ext) \notin StreamableExts
    /\ CTime(args.cache).ok
    /\ ~dirExists
    /\ branch' = "first"
    /\ dirExists' = TRUE
    /\ files' = {}
    /\ mtime' = now
    /\ net' = net \cup {"list_objects"}
    /\ \/ StartLoop(Listing(store, FolderPath(args.path))) /\ err' = err
       \/ Raise("ClientError") /\ pending' = <<>> /\ popComplete' = FALSE
    /\ UNCHANGED <<args, ext, ret, auth, written, now, store>>

\* lines 146-151 and 157-161: one turn of the loop over the listed objects
Download ==
    /\ pc = "download"
    /\ pending # <<>>
    /\ LET key == Head(pending)
           skip == IF branch = "refresh" THEN SkipOnRefresh(key, FolderPath(args.path))
                   ELSE SkipOnFirst(key, FolderPath(args.path))
       IN  IF skip
           THEN /\ StartLoop(Tail(pending))
                /\ UNCHANGED <<ext, err, net, written, files, mtime>>
           ELSE /\ net' = net \cup {"download_file"}
                /\ \/ /\ files' = files \cup {SplitLast(key, <<"/">>)}
                      /\ written' = written \cup {SplitLast(key, <<"/">>)}
                      /\ mtime' = now
                      /\ ext' = SplitLast(key, Dot)
                      /\ StartLoop(Tail(pending))
                      /\ err' = err
                   \/ /\ Raise("ClientError")
                      /\ UNCHANGED <<ext, written, files, mtime, pending, popComplete>>
    /\ UNCHANGED <<args, ret, auth, branch, dirExists, now, store>>

\* the kind of thing path names at line 163: the buffer of line 106, the cache
\* subdirectory of line 126, or the file of a local path
PathKind == IF Orgn(args.path) = "S3"
            THEN IF branch = "stream" THEN "buffer" ELSE "dir"
            ELSE "file"

\* lines 163-305: the dispatch on ext, and the return
DispatchStep ==
    /\ pc = "dispatch"
    /\ LET r == Dispatch([ext |-> ext, orgn |-> Orgn(args.path), pathKind |-> PathKind,
                          file |-> Flatten(args.file), parse |-> args.parse,
                          remove_comments |-> args.remove_comments, engine |-> args.engine])
       IN  /\ pc' = IF r.ok THEN "done" ELSE "raised"
           /\ err' = r.err
           /\ ret' = r.data
    /\ UNCHANGED <<args, ext, net, auth, branch, pending, written, dirExists, files, mtime,
                   popComplete, now, store>>

\* the call is over: the caller has its value or its exception
Finish ==
    /\ pc \in {"done", "raised"}
    /\ pc' = "idle"
    /\ args' = NoArgs
    /\ ext' = <<>>
    /\ err' = ""
    /\ ret' = EmptyList
    /\ net' = {}
    /\ auth' = <<>>
    /\ branch' = "none"
    /\ pending' = <<>>
    /\ written' = {}
    /\ UNCHANGED <<dirExists, files, mtime, popComplete, now, store>>

\* between two calls an object is put in the bucket, or deleted from it
StoreChange ==
    /\ pc = "idle"
    /\ \E k \in KeySet : store' = IF k \in store THEN store \ {k} ELSE store \cup {k}
    /\ UNCHANGED <<pc, args, ext, err, ret, net, auth, branch, pending, written,
                   dirExists, files, mtime, popComplete, now>>

\* time passes between two calls (a call takes no time, at the grain of the clock)
Tick ==
    /\ pc = "idle"
    /\ now + TickSecs <= MaxTicks * TickSecs
    /\ now' = now + TickSecs
    /\ UNCHANGED <<pc, args, ext, err, ret, net, auth, branch, pending, written,
                   dirExists, files, mtime, popComplete, store>>

Init ==
    /\ pc = "idle"
    /\ args = NoArgs
    /\ ext = <<>>
    /\ err = ""
    /\ ret = EmptyList
    /\ net = {}
    /\ auth = <<>>
    /\ branch = "none"
    /\ pending = <<>>
    /\ written = {}
    /\ dirExists = FALSE
    /\ files = {}
    /\ mtime = 0
    /\ popComplete = FALSE
    /\ now = 0
    /\ store \in SUBSET KeySet

Next == \/ Call
        \/ Stream
        \/ BadFreshness
        \/ CacheHit
        \/ CacheRefresh
        \/ CacheFirst
        \/ Download
        \/ DispatchStep
        \/ Finish
        \/ StoreChange
        \/ Tick

Spec == Init /\ [][Next]_vars

(***************************************************************************)
(* read() on a local path.                                                 *)
(***************************************************************************)
\* the pieces the script files are made of
ScriptPieces == {<<"x">>, <<" ">>, <<"#">>, <<"\n">>, <<"{">>}

\* the pieces the sql and js files are made of
QueryPieces == {<<"x">>, <<" ">>, <<"-","-">>, <<"/","/">>, <<"\n">>}

\* the pieces the jsonc files are made of
Member == <<"\"","k","\"",":","1">>
LineComment == <<"/","/","c">>
JsoncPieces == {<<"{">>, <<"}">>, Member, <<",">>, <<" ">>, <<"\n">>, LineComment}

\* the script of the specification's scenario: "x = 1  # set x\n\ny = 2\n"
ScenarioB == << <<"x"," ","=", " ","1">>, <<" "," ">>, <<"#"," ","s","e","t"," ","x">>,
                <<"\n">>, <<"\n">>, <<"y"," ","=", " ","2">>, <<"\n">> >>

LocalPath(e) == <<"f", ".">> \o e

Callable == [callable |-> TRUE, name |-> <<>>]
Engine(name) == [callable |-> FALSE, name |-> name]
Engines == {Engine(Auto), Engine(Py), Engine(Pa), Engine(Pyarrow), Engine(Fp),
            Engine(Fastparquet), Engine(Json), Engine(<<"x">>), Callable}

\* the local calls: scripts and jsonc documents of at most n and m pieces, parquet
\* files, and the other extensions
LocalCalls(n, m) ==
    { Arguments(LocalPath(e), NoExtension, BoolArg(FALSE), f, p, r, AutoEngine) :
        e \in {Py, Sh},
        f \in SeqsUpTo(ScriptPieces, n) \cup {ScenarioB},
        p \in BOOLEAN, r \in BOOLEAN }
    \cup
    { Arguments(LocalPath(e), NoExtension, BoolArg(FALSE), f, p, r, AutoEngine) :
        e \in {Sql, Js},
        f \in SeqsUpTo(QueryPieces, n - 1),
        p \in BOOLEAN, r \in BOOLEAN }
    \cup
    { Arguments(LocalPath(Jsonc), NoExtension, BoolArg(FALSE), f, TRUE, TRUE, AutoEngine) :
        f \in SeqsUpTo(JsoncPieces, m) }
    \cup
    { Arguments(LocalPath(Jsonc), NoExtension, BoolArg(FALSE), f, TRUE, FALSE, AutoEngine) :
        f \in SeqsUpTo(JsoncPieces, n - 1) }
    \cup
    { Arguments(LocalPath(e), NoExtension, BoolArg(FALSE), <<Member>>, TRUE, TRUE, g) :
        e \in {Parq, Parquet, Json}, g \in Engines }
    \cup
    { Arguments(LocalPath(<<"d","a","t">>), x, BoolArg(FALSE), <<Member>>, TRUE, TRUE, AutoEngine) :
        x \in {NoExtension} \cup {Extension(e) : e \in {Csv, Xlsx, Html, Fea, <<"r","o">>}} }

\* lines 73-82 for a local path: nothing of lines 84-161 runs
CallLocal ==
    /\ pc = "idle"
    /\ \E a \in LocalCalls(MaxPieces, MaxJsoncPieces) :
          /\ Orgn(a.path) = "other"
          /\ args' = a
          /\ ext' = InitialExt(a.path, a.extension)
    /\ pc' = "dispatch"
    /\ UNCHANGED <<err, ret, net, auth, branch, pending, written, dirExists, files, mtime,
                   popComplete, now, store>>

InitLocal == Init /\ store = {}

NextLocal == \/ CallLocal
             \/ DispatchStep
             \/ Finish

SpecLocal == InitLocal /\ [][NextLocal]_vars

(***************************************************************************)
(* The properties.                                                         *)
(***************************************************************************)
\* the running call went through lines 107-161
OnCachePath == /\ pc \in {"download", "dispatch", "done", "raised"}
               /\ \A i \in 1..Len(auth) : auth[i][2] # "FileNotFoundError"
               /\ Lower(InitialExt(args.path, args.extension)) \notin StreamableExts

\* the cache argument is False, or a token whose number is 0
ZeroFreshness(cache) == \/ cache.isBool /\ ~cache.b
                        \/ ~cache.isBool /\ CTime(cache).ok /\ CTime(cache).num = 0

\* C1: a read on the cache path whose freshness is False or of magnitude 0 never
\* takes the hit branch: it lists the objects again and downloads them again, also
\* when the subdirectory of the key exists
C1_ZeroFreshnessRefreshes ==
    (OnCachePath /\ ZeroFreshness(args.cache))
        => /\ branch \in {"refresh", "first"}
           /\ "list_objects" \in net

\* C2: a call that judges the cache a hit (the subdirectory exists and its age is
\* below the freshness) issues no object-store operation, from the check to its return
C2_HitIssuesNoNetwork ==
    branch = "hit"
        => /\ net = {}
           /\ dirExists
           /\ IsFresh(FileAge(AgeFmt(args.cache), mtime, now), CTime(args.cache))

\* a call that took the hit branch has returned the table of the cached files
C2_HitReturned == branch = "hit" /\ pc = "done" /\ ret.kind = "table" /\ files # {}

\* s.endswith(p)
EndsWith(s, p) == Len(p) <= Len(s) /\ StartsAt(s, p, Len(s) - Len(p) + 1)

\* the files of the listed objects whose key is not the prefix and ends with a data extension
DataFiles ==
    LET l == Listing(store, FolderPath(args.path))
    IN  { SplitLast(l[i], <<"/">>) :
            i \in { k \in 1..Len(l) : /\ l[k] # FolderPath(args.path)
                                      /\ \E e \in DataMarkers : EndsWith(l[k], e) } }

\* C3: on a miss, first download or refresh alike, the objects downloaded are exactly
\* the listed objects whose key is not the prefix and ends with a data extension
C3_DownloadsExactlyDataFiles ==
    (pc \in {"dispatch", "done"} /\ branch \in {"first", "refresh"}) => written = DataFiles

\* the lines of a script, each cut at its "#" and stripped, the empty ones left out,
\* joined by one space
ScriptBlob(file) ==
    LET ls == Split(file, <<"\n">>)
        code == [i \in 1..Len(ls) |-> Strip(SplitFirst(ls[i], <<"#">>))]
    IN  Join(SelectSeq(code, LAMBDA l : l # <<>>), <<" ">>)

\* C4: a py or sh text read with the comments removed returns its cleaned lines, in
\* order, joined by exactly one space, a line of code and comment giving its code
\* alone; "x = 1  # set x\n\ny = 2\n" gives "x = 1 y = 2"
C4_ScriptBlob ==
    (/\ pc = "done"
     /\ Orgn(args.path) = "other"
     /\ Lower(ext) \in {Py, Sh}
     /\ args.remove_comments
     /\ \A i \in 1..Len(args.file) : args.file[i] # <<"{">>)
        => /\ ret.s = ScriptBlob(Flatten(args.file))
           /\ args.file = ScenarioB
                 => ret.s = <<"x"," ","=", " ","1"," ","y"," ","=", " ","2">>

\* the pieces of a jsonc file without its line comments, each running to the end of its line
RECURSIVE WithoutLineComments(_, _)
WithoutLineComments(ps, inComment) ==
    IF ps = <<>> THEN <<>>
    ELSE IF ps[1] = <<"\n">> THEN <<ps[1]>> \o WithoutLineComments(Tail(ps), FALSE)
    ELSE IF inComment \/ ps[1] = LineComment THEN WithoutLineComments(Tail(ps), TRUE)
    ELSE <<ps[1]>> \o WithoutLineComments(Tail(ps), FALSE)

\* the commas of ps that follow a member and that only white space separates from
\* the closing brace
TrailingCommas(ps) ==
    { i \in 1..Len(ps) :
        /\ ps[i] = <<",">>
        /\ \E h \in 1..(i - 1) :
              /\ ps[h] = Member
              /\ \A k \in (h + 1)..(i - 1) : ps[k] \in {<<" ">>, <<"\n">>}
        /\ \E j \in (i + 1)..Len(ps) :
              /\ ps[j] = <<"}">>
              /\ \A k \in (i + 1)..(j - 1) : ps[k] \in {<<" ">>, <<"\n">>} }

\* the file without its comments and without its trailing commas
CommentFree(ps) ==
    LET q == WithoutLineComments(ps, FALSE)
        keep == {i \in 1..Len(q) : i \notin TrailingCommas(q)}
        nth(n) == CHOOSE i \in keep : Cardinality({k \in keep : k <= i}) = n
    IN  [n \in 1..Cardinality(keep) |-> q[nth(n)]]

\* a document with a line comment and a trailing comma, that parses without them
CommentedDocument(ps) ==
    /\ \E i \in 1..Len(ps) : ps[i] = LineComment
    /\ TrailingCommas(WithoutLineComments(ps, FALSE)) # {}
    /\ JsonLoads(Flatten(CommentFree(ps))).ok

\* C5: a jsonc text with a trailing comma before the closing brace and a // comment,
\* wherever the comment is, is cleaned and parsed to the value of the same text
\* without the comment and the comma
C5_JsoncRoundTrip ==
    (/\ pc \in {"done", "raised"}
     /\ Orgn(args.path) = "other"
     /\ Lower(ext) = Jsonc
     /\ args.remove_comments
     /\ CommentedDocument(args.file))
        => /\ pc = "done"
           /\ ret.v = JsonLoads(Flatten(CommentFree(args.file))).v

\* a token with no digit, or with a unit that is not known
MalformedToken(cache) ==
    /\ ~cache.isBool
    /\ \/ ~ \E i \in 1..Len(cache.s) : cache.s[i] \in Digits
       \/ AgeFmt(cache) # <<>> /\ UnitSeconds(AgeFmt(cache)) = 0

\* C6: an object-store read whose freshness token is malformed fails, whatever the
\* extension, and has issued no object-store operation when it fails
C6_MalformedTokenFailsFirst ==
    (pc # "idle" /\ MalformedToken(args.cache)) => (net = {} /\ pc # "done")

\* C7: when the profile is not found and the credential provider fails with
\* file-not-found, the call ends with ConnectionError, not with the provider's error
C7_ConnectionErrorOnNoCredentials ==
    auth = << <<"profile", "ProfileNotFound">>, <<"credentials", "FileNotFoundError">> >>
        => (pc = "raised" /\ err = "ConnectionError")

\* the backend the engine argument selects
SelectedBackend(engine) ==
    IF engine.callable THEN "callable"
    ELSE IF Lower(engine.name) \in {Auto, Py, Pa, Pyarrow} THEN "pyarrow"
    ELSE "fastparquet"

\* C8: a parquet read of a local path returns the table of the backend the engine
\* selects: pyarrow for auto and the pyarrow names, fastparquet for fp and
\* fastparquet, the callable's result for a callable
C8_ParquetReturnsSelectedTable ==
    (/\ pc = "done"
     /\ Orgn(args.path) = "other"
     /\ Lower(ext) \in {Parq, Parquet})
        => ret = Table(SelectedBackend(args.engine))

\* C9: a subdirectory judged a hit holds the whole of one finished population, never
\* some of its files only (the files it holds are those of a loop that ran to its
\* end), and a refresh has removed every old file before it downloads the first new one
C9_HitSeesWholePopulation ==
    /\ (branch = "hit" /\ files # {}) => popComplete
    /\ (pc = "download" /\ branch = "refresh") => files \subseteq written

\* C10: a subdirectory judged a hit holds at least one file, so that the hit branch
\* finds the extension of a file, also after a population that wrote none
C10_HitFindsAFile ==
    branch = "hit" => files # {}

====
